---- MODULE Spec2Model ----
(***************************************************************************)
(* Grade aggregation and outlier detection of PyGrade (GradeManager), over *)
(* the assignment cache of AssignmentManager, the roster of StudentManager *)
(* and the grades table of DatabaseManager, and the operations of the      *)
(* PyGrade menus that write them (students, assignments, grades).          *)
(*                                                                         *)
(* Python floats are modelled as exact rationals <<n, d>> in lowest terms  *)
(* (d > 0).  A weight is kept as a rational w / WeightDen.  The text of a  *)
(* student's name and the digits of a formatted z-score are not modelled.  *)
(***************************************************************************)
EXTENDS Integers, Sequences, FiniteSets, TLC

VARIABLES
    course_code,   \* GradeManager.course_code (set in lockstep with the other managers)
    students,      \* StudentManager.students: student ids in dict insertion order
    assignments,   \* AssignmentManager.assignments: records in dict insertion order
    db_assignments, \* rows of the assignments table, in id order
    db_grades,     \* rows of the grades table, in rowid order
    ret,           \* the last call: [op, arg, value]
    writes         \* the number of writing operations made so far

vars == <<course_code, students, assignments, db_assignments, db_grades, ret, writes>>

----------------------------------------------------------------------------
(* Bounds of the model *)

WeightDen == 4          \* weights are multiples of 1 / WeightDen
FinalMaxScore == 10     \* largest max_score / score drawn for one student's final
LetterSpan == 240       \* letter grades are tried on the halves -LetterSpan/2 .. LetterSpan/2
RankStudents == 3       \* students drawn for ranking and missing-grade detection
OutlierStudents == 6    \* students drawn for the statistical scan
OutlierMaxScore == 5    \* largest score drawn for the statistical scan
ExampleStudents == 5    \* students of the worked example of the statistical scan
ExampleMaxScore == 100  \* max_score of the worked example
AppStudents == 2        \* student ids the application's operations are tried with
AppMaxScore == 2        \* max_score given to create_assignment
MaxWrites == 6          \* writing operations made in one run of the application

(* Program constants *)

GradeA == 90
GradeB == 80
GradeC == 70
GradeD == 60
MinSample == 3
ZThreshold == 2
PerfectMinCount == 5
LowAverage == 75
FullWeight == 1         \* the 1.0 that total_weight is compared with
Percent == 100
MISSING == -1           \* the "MISSING" score marker (no recorded score is negative)

NoCourse == "None"
Course == "CS101"
TitleSeq == <<"A", "B">>
Titles == {"A", "B"}

----------------------------------------------------------------------------
(* Exact arithmetic standing for Python's float arithmetic *)

Abs(i) == IF i < 0 THEN -i ELSE i

RECURSIVE GCD(_, _)
GCD(a, b) == IF b = 0 THEN a ELSE GCD(b, a % b)

Norm(n, d) ==
    LET s == IF d < 0 THEN -1 ELSE 1
        g == GCD(Abs(n), Abs(d))
    IN  <<(s * n) \div g, (s * d) \div g>>

Int2R(i) == <<i, 1>>
RAdd(a, b) == Norm(a[1] * b[2] + b[1] * a[2], a[2] * b[2])
RSub(a, b) == Norm(a[1] * b[2] - b[1] * a[2], a[2] * b[2])
RMul(a, b) == Norm(a[1] * b[1], a[2] * b[2])
RDiv(a, b) == Norm(a[1] * b[2], a[2] * b[1])
RLt(a, b) == a[1] * b[2] < b[1] * a[2]
RGe(a, b) == ~RLt(a, b)
RGt(a, b) == RLt(b, a)

Range(s) == {s[i] : i \in DOMAIN s}

----------------------------------------------------------------------------
(* AssignmentManager / StudentManager / DatabaseManager read accessors *)

NoneValue == [absent |-> TRUE]

\* AssignmentManager.get_assignment: the cached record, or None
get_assignment(title) ==
    IF \E i \in DOMAIN assignments : assignments[i].title = title
    THEN assignments[CHOOSE i \in DOMAIN assignments : assignments[i].title = title]
    ELSE NoneValue

\* AssignmentManager.get_all_assignments
get_all_assignments == assignments

\* StudentManager.get_student: is the id a key of the roster
get_student(student_id) == student_id \in Range(students)

\* StudentManager.get_all_students
get_all_students == students

\* DatabaseManager.get_student_grades: <<title, score>> pairs of the student's rows
db_get_student_grades(student_id, course) ==
    LET keep(r) == r.student_id = student_id /\ r.course_code = course
        row2item(r) == <<r.assignment_title, r.score>>
        sel == SelectSeq(db_grades, keep)
    IN  [i \in DOMAIN sel |-> row2item(sel[i])]

\* DatabaseManager.get_assignment_grades: <<student_id, score>> pairs of the title's rows
db_get_assignment_grades(course, assignment_title) ==
    LET keep(r) == r.course_code = course /\ r.assignment_title = assignment_title
        sel == SelectSeq(db_grades, keep)
    IN  [i \in DOMAIN sel |-> <<sel[i].student_id, sel[i].score>>]

\* GradeManager.get_student_grades
get_student_grades(student_id) ==
    IF course_code = NoCourse THEN <<>>
    ELSE db_get_student_grades(student_id, course_code)

\* GradeManager.get_assignment_grades
get_assignment_grades(assignment_title) ==
    IF course_code = NoCourse THEN <<>>
    ELSE db_get_assignment_grades(course_code, assignment_title)

----------------------------------------------------------------------------
(* GradeManager._calculate_letter_grade *)

\* bug variant: exclusive boundaries (> in place of >=)
calculate_letter_grade_exclusive(score) ==
    IF RGt(score, Int2R(GradeA)) THEN "A"
    ELSE IF RGt(score, Int2R(GradeB)) THEN "B"
    ELSE IF RGt(score, Int2R(GradeC)) THEN "C"
    ELSE IF RGt(score, Int2R(GradeD)) THEN "D"
    ELSE "F"

calculate_letter_grade(score) ==
    IF RGe(score, Int2R(GradeA)) THEN "A"
    ELSE IF RGe(score, Int2R(GradeB)) THEN "B"
    ELSE IF RGe(score, Int2R(GradeC)) THEN "C"
    ELSE IF RGe(score, Int2R(GradeD)) THEN "D"
    ELSE "F"

(* GradeManager.calculate_student_final *)

\* bug variant: the loop stops at the first score whose assignment is not found
RECURSIVE final_loop_break(_, _, _)
final_loop_break(items, i, acc) ==
    IF i > Len(items) THEN acc
    ELSE LET assignment == get_assignment(items[i][1])
             score == items[i][2]
         IN  IF assignment # NoneValue
             THEN LET percentage == RMul(RDiv(Int2R(score), Int2R(assignment.max_score)),
                                         Int2R(100))
                      weight == Norm(assignment.weight, WeightDen)
                  IN  final_loop_break(items, i + 1,
                                       <<RAdd(acc[1], RMul(percentage, weight)),
                                         RAdd(acc[2], weight)>>)
             ELSE acc

\* the loop over student_grades.items(): acc = <<weighted_total, total_weight>>
RECURSIVE final_loop(_, _, _)
final_loop(items, i, acc) ==
    IF i > Len(items) THEN acc
    ELSE LET assignment == get_assignment(items[i][1])
             score == items[i][2]
         IN  IF assignment # NoneValue
             THEN LET percentage == RMul(RDiv(Int2R(score), Int2R(assignment.max_score)),
                                         Int2R(Percent))
                      weight == Norm(assignment.weight, WeightDen)
                  IN  final_loop(items, i + 1,
                                 <<RAdd(acc[1], RMul(percentage, weight)),
                                   RAdd(acc[2], weight)>>)
             ELSE final_loop(items, i + 1, acc)

\* bug variant: the final grade is clamped to 100
finalize_clamped(weighted_total, total_weight) ==
    LET final_grade == IF RGt(total_weight, Int2R(0))
                       THEN IF RLt(total_weight, Int2R(FullWeight))
                            THEN RDiv(weighted_total, total_weight)
                            ELSE weighted_total
                       ELSE Int2R(0)
    IN  IF RGt(final_grade, Int2R(Percent)) THEN Int2R(Percent) ELSE final_grade

\* bug variant: the weighted total is always rescaled by the weight seen
finalize_always_rescale(weighted_total, total_weight) ==
    IF RGt(total_weight, Int2R(0))
    THEN RDiv(weighted_total, total_weight)
    ELSE Int2R(0)

\* total_weight > 0 ? (weighted_total / total_weight if total_weight < 1.0
\*                     else weighted_total) : 0.0
finalize(weighted_total, total_weight) ==
    IF RGt(total_weight, Int2R(0))
    THEN IF RLt(total_weight, Int2R(FullWeight))
         THEN RDiv(weighted_total, total_weight)
         ELSE weighted_total
    ELSE Int2R(0)

\* bug variant: no early return for an empty mapping
final_from_no_early_return(student_grades) ==
    LET acc == final_loop(student_grades, 1, <<Int2R(0), Int2R(0)>>)
        final_grade == finalize(acc[1], acc[2])
    IN  [weighted_total |-> final_grade,
         letter_grade |-> calculate_letter_grade(final_grade)]

\* bug variant: None also when no weight was seen
final_from_none_without_weight(student_grades) ==
    IF student_grades = <<>> THEN NoneValue
    ELSE LET acc == final_loop(student_grades, 1, <<Int2R(0), Int2R(0)>>)
             final_grade == finalize(acc[1], acc[2])
         IN  IF acc[2] = Int2R(0) THEN NoneValue
             ELSE [weighted_total |-> final_grade,
                   letter_grade |-> calculate_letter_grade(final_grade)]

\* lines 160-185: from the fetched mapping to the returned value
final_from(student_grades) ==
    IF student_grades = <<>> THEN NoneValue
    ELSE LET acc == final_loop(student_grades, 1, <<Int2R(0), Int2R(0)>>)
             final_grade == finalize(acc[1], acc[2])
         IN  [weighted_total |-> final_grade,
              letter_grade |-> calculate_letter_grade(final_grade)]

calculate_student_final(student_id) == final_from(get_student_grades(student_id))

----------------------------------------------------------------------------
(* GradeManager.calculate_final_grades *)

\* bug variant: a final of 0.0 is taken for "no final" (truth value of the total)
RECURSIVE results_loop_skip_zero(_, _)
results_loop_skip_zero(i, results) ==
    IF i > Len(get_all_students) THEN results
    ELSE LET student_id == get_all_students[i]
             final == calculate_student_final(student_id)
         IN  IF final # NoneValue /\ final.weighted_total # Int2R(0)
             THEN results_loop_skip_zero(i + 1,
                      Append(results, [student_id |-> student_id,
                                       weighted_total |-> final.weighted_total,
                                       letter_grade |-> final.letter_grade]))
             ELSE results_loop_skip_zero(i + 1, results)

\* the loop over get_all_students(): one entry per student whose final is not None
RECURSIVE results_loop(_, _)
results_loop(i, results) ==
    IF i > Len(get_all_students) THEN results
    ELSE LET student_id == get_all_students[i]
             final == calculate_student_final(student_id)
         IN  IF final # NoneValue
             THEN results_loop(i + 1,
                      Append(results, [student_id |-> student_id,
                                       weighted_total |-> final.weighted_total,
                                       letter_grade |-> final.letter_grade]))
             ELSE results_loop(i + 1, results)

\* bug variant: ascending order (reverse=True forgotten)
insert_asc(sorted, x) ==
    LET k == Cardinality({j \in DOMAIN sorted :
                            RGe(x.weighted_total, sorted[j].weighted_total)})
    IN  [j \in 1..(Len(sorted) + 1) |->
            IF j <= k THEN sorted[j] ELSE IF j = k + 1 THEN x ELSE sorted[j - 1]]

\* bug variant: an ascending sort reversed afterwards, which reverses the ties
insert_desc_ties_reversed(sorted, x) ==
    LET k == Cardinality({j \in DOMAIN sorted :
                            RGt(sorted[j].weighted_total, x.weighted_total)})
    IN  [j \in 1..(Len(sorted) + 1) |->
            IF j <= k THEN sorted[j] ELSE IF j = k + 1 THEN x ELSE sorted[j - 1]]

\* where a stable descending sort puts x among the already sorted entries:
\* behind every entry whose key is not smaller
insert_desc(sorted, x) ==
    LET k == Cardinality({j \in DOMAIN sorted :
                            RGe(sorted[j].weighted_total, x.weighted_total)})
    IN  [j \in 1..(Len(sorted) + 1) |->
            IF j <= k THEN sorted[j] ELSE IF j = k + 1 THEN x ELSE sorted[j - 1]]

\* sorted(results, key=weighted_total, reverse=True): stable
RECURSIVE sorted_desc(_, _, _)
sorted_desc(results, i, acc) ==
    IF i > Len(results) THEN acc
    ELSE sorted_desc(results, i + 1, insert_desc(acc, results[i]))

calculate_final_grades == sorted_desc(results_loop(1, <<>>), 1, <<>>)

----------------------------------------------------------------------------
(* GradeManager.detect_outliers *)

Entry(student_id, assignment, score, reason) ==
    [student_id |-> student_id, assignment |-> assignment.title, score |-> score,
     max_score |-> assignment.max_score, reason |-> reason]

\* bug variant: only students without any score are reported
missing_entries_ungraded_students_only ==
    LET all_students == get_all_students
        all_assignments == get_all_assignments
        A == Len(all_assignments)
        pairs == [k \in 1..(Len(all_students) * A) |->
                    <<all_students[((k - 1) \div A) + 1],
                      all_assignments[((k - 1) % A) + 1]>>]
        missing == SelectSeq(pairs, LAMBDA p : get_student_grades(p[1]) = <<>>)
    IN  [k \in DOMAIN missing |->
            Entry(missing[k][1], missing[k][2], MISSING, "Missing grade")]

\* lines 252-268: a "Missing grade" entry per (student, assignment) without a score
missing_entries ==
    LET all_students == get_all_students
        all_assignments == get_all_assignments
        A == Len(all_assignments)
        pairs == [k \in 1..(Len(all_students) * A) |->
                    <<all_students[((k - 1) \div A) + 1],
                      all_assignments[((k - 1) % A) + 1]>>]
        graded(student_id) == {it[1] : it \in Range(get_student_grades(student_id))}
        missing == SelectSeq(pairs, LAMBDA p : p[2].title \notin graded(p[1]))
    IN  [k \in DOMAIN missing |->
            Entry(missing[k][1], missing[k][2], MISSING, "Missing grade")]

RECURSIVE seq_sum(_, _)
seq_sum(scores, i) == IF i > Len(scores) THEN 0 ELSE scores[i] + seq_sum(scores, i + 1)

\* statistics.mean
mean(scores) == Norm(seq_sum(scores, 1), Len(scores))

\* statistics.stdev squared: the sum of squared deviations over n - 1
RECURSIVE sq_dev_sum(_, _, _)
sq_dev_sum(scores, m, i) ==
    IF i > Len(scores) THEN Int2R(0)
    ELSE LET dev == RSub(Int2R(scores[i]), m)
         IN  RAdd(RMul(dev, dev), sq_dev_sum(scores, m, i + 1))

\* bug variant: the population variance (pstdev in place of stdev)
variance_population(scores) ==
    RDiv(sq_dev_sum(scores, mean(scores), 1), Int2R(Len(scores)))

variance(scores) == RDiv(sq_dev_sum(scores, mean(scores), 1), Int2R(Len(scores) - 1))

\* bug variant: the deviation itself is compared with the threshold (no division
\* by stdev)
z_exceeds_undivided(score, mean_score, var) ==
    /\ RGt(var, Int2R(0))
    /\ LET dev == RSub(Int2R(score), mean_score)
       IN  RGt(RMul(dev, dev), Int2R(ZThreshold * ZThreshold))

\* bug variant: one standard deviation is taken for the threshold
z_exceeds_one_sigma(score, mean_score, var) ==
    /\ RGt(var, Int2R(0))
    /\ LET dev == RSub(Int2R(score), mean_score)
       IN  RGt(RMul(dev, dev), var)

\* z_score > 2, with z_score = |score - mean| / stdev if stdev > 0 else 0:
\* decided on the squares, stdev being the root of the variance
z_exceeds(score, mean_score, var) ==
    /\ RGt(var, Int2R(0))
    /\ LET dev == RSub(Int2R(score), mean_score)
       IN  RGt(RMul(dev, dev), RMul(Int2R(ZThreshold * ZThreshold), var))

\* bug variant: the z-score loop does not look the student up
unusual_entries_unguarded(assignment, assignment_grades) ==
    LET scores == [i \in DOMAIN assignment_grades |-> assignment_grades[i][2]]
        mean_score == mean(scores)
        var == variance(scores)
        flagged == SelectSeq(assignment_grades,
                             LAMBDA it : z_exceeds(it[2], mean_score, var))
    IN  [k \in DOMAIN flagged |->
            Entry(flagged[k][1], assignment, flagged[k][2], "Unusual score")]

\* lines 286-300: "Unusual score" entries of one assignment
unusual_entries(assignment, assignment_grades) ==
    LET scores == [i \in DOMAIN assignment_grades |-> assignment_grades[i][2]]
        mean_score == mean(scores)
        var == variance(scores)
        flagged == SelectSeq(assignment_grades,
                             LAMBDA it : z_exceeds(it[2], mean_score, var)
                                         /\ get_student(it[1]))
    IN  [k \in DOMAIN flagged |->
            Entry(flagged[k][1], assignment, flagged[k][2], "Unusual score")]

\* bug variant: the zero check shares the sample-size gate of the perfect check
zero_perfect_entries_gated_zero(assignment, assignment_grades) ==
    LET scores == [i \in DOMAIN assignment_grades |-> assignment_grades[i][2]]
        avg_percentage == RMul(RDiv(mean(scores), Int2R(assignment.max_score)),
                               Int2R(Percent))
        zero(it) == it[2] = 0 /\ Len(assignment_grades) > PerfectMinCount
        perfect(it) == /\ it[2] # 0
                       /\ it[2] = assignment.max_score
                       /\ Len(assignment_grades) > PerfectMinCount
                       /\ RLt(avg_percentage, Int2R(LowAverage))
        flagged == SelectSeq(assignment_grades,
                             LAMBDA it : get_student(it[1]) /\ (zero(it) \/ perfect(it)))
    IN  [k \in DOMAIN flagged |->
            Entry(flagged[k][1], assignment, flagged[k][2],
                  IF zero(flagged[k]) THEN "Zero score - possible issue"
                  ELSE "Perfect score while class average is low")]

\* bug variant: the perfect check takes an average of exactly 75 as low
zero_perfect_entries_inclusive(assignment, assignment_grades) ==
    LET scores == [i \in DOMAIN assignment_grades |-> assignment_grades[i][2]]
        avg_percentage == RMul(RDiv(mean(scores), Int2R(assignment.max_score)),
                               Int2R(Percent))
        zero(it) == it[2] = 0
        perfect(it) == /\ it[2] # 0
                       /\ it[2] = assignment.max_score
                       /\ Len(assignment_grades) > PerfectMinCount
                       /\ ~RGt(avg_percentage, Int2R(LowAverage))
        flagged == SelectSeq(assignment_grades,
                             LAMBDA it : get_student(it[1]) /\ (zero(it) \/ perfect(it)))
    IN  [k \in DOMAIN flagged |->
            Entry(flagged[k][1], assignment, flagged[k][2],
                  IF zero(flagged[k]) THEN "Zero score - possible issue"
                  ELSE "Perfect score while class average is low")]

\* bug variant: the zero and perfect checks do not look the student up
zero_perfect_entries_unguarded(assignment, assignment_grades) ==
    LET scores == [i \in DOMAIN assignment_grades |-> assignment_grades[i][2]]
        avg_percentage == RMul(RDiv(mean(scores), Int2R(assignment.max_score)),
                               Int2R(Percent))
        zero(it) == it[2] = 0
        perfect(it) == /\ it[2] # 0
                       /\ it[2] = assignment.max_score
                       /\ Len(assignment_grades) > PerfectMinCount
                       /\ RLt(avg_percentage, Int2R(LowAverage))
        flagged == SelectSeq(assignment_grades, LAMBDA it : zero(it) \/ perfect(it))
    IN  [k \in DOMAIN flagged |->
            Entry(flagged[k][1], assignment, flagged[k][2],
                  IF zero(flagged[k]) THEN "Zero score - possible issue"
                  ELSE "Perfect score while class average is low")]

\* lines 302-327: "Zero score" and "Perfect score" entries of one assignment
zero_perfect_entries(assignment, assignment_grades) ==
    LET scores == [i \in DOMAIN assignment_grades |-> assignment_grades[i][2]]
        avg_percentage == RMul(RDiv(mean(scores), Int2R(assignment.max_score)),
                               Int2R(Percent))
        zero(it) == it[2] = 0
        perfect(it) == /\ it[2] # 0
                       /\ it[2] = assignment.max_score
                       /\ Len(assignment_grades) > PerfectMinCount
                       /\ RLt(avg_percentage, Int2R(LowAverage))
        flagged == SelectSeq(assignment_grades,
                             LAMBDA it : get_student(it[1]) /\ (zero(it) \/ perfect(it)))
    IN  [k \in DOMAIN flagged |->
            Entry(flagged[k][1], assignment, flagged[k][2],
                  IF zero(flagged[k]) THEN "Zero score - possible issue"
                  ELSE "Perfect score while class average is low")]

\* bug variant: a student who has an "Unusual score" entry gets no second entry
scan_assignment_deduplicated(assignment) ==
    LET assignment_grades == get_assignment_grades(assignment.title)
        unusual == unusual_entries(assignment, assignment_grades)
        others == zero_perfect_entries(assignment, assignment_grades)
        flagged == {unusual[i].student_id : i \in DOMAIN unusual}
    IN  IF Len(assignment_grades) < MinSample THEN <<>>
        ELSE unusual \o SelectSeq(others, LAMBDA e : e.student_id \notin flagged)

\* bug variant: an assignment whose scores are all identical is skipped altogether
scan_assignment_skip_degenerate(assignment) ==
    LET assignment_grades == get_assignment_grades(assignment.title)
        scores == [i \in DOMAIN assignment_grades |-> assignment_grades[i][2]]
    IN  IF Len(assignment_grades) < MinSample THEN <<>>
        ELSE IF variance(scores) = Int2R(0) THEN <<>>
        ELSE unusual_entries(assignment, assignment_grades)
             \o zero_perfect_entries(assignment, assignment_grades)

\* bug variant: the scan starts at two scores
scan_assignment_from_two(assignment) ==
    LET assignment_grades == get_assignment_grades(assignment.title)
    IN  IF Len(assignment_grades) < MinSample - 1 THEN <<>>
        ELSE unusual_entries(assignment, assignment_grades)
             \o zero_perfect_entries(assignment, assignment_grades)

\* lines 271-327: the statistical scan of one assignment; statistics.stdev cannot
\* raise here, since it needs two scores and the scan starts at MinSample
scan_assignment(assignment) ==
    LET assignment_grades == get_assignment_grades(assignment.title)
    IN  IF Len(assignment_grades) < MinSample THEN <<>>
        ELSE unusual_entries(assignment, assignment_grades)
             \o zero_perfect_entries(assignment, assignment_grades)

\* bug variant: the assignments are scanned in the order of their titles, not in
\* the order of the cache
RECURSIVE scan_loop_by_title(_, _)
scan_loop_by_title(i, outliers) ==
    LET by_title == SelectSeq(TitleSeq, LAMBDA t : get_assignment(t) # NoneValue)
    IN  IF i > Len(by_title) THEN outliers
        ELSE scan_loop_by_title(i + 1,
                 outliers \o scan_assignment(get_assignment(by_title[i])))

RECURSIVE scan_loop(_, _)
scan_loop(i, outliers) ==
    IF i > Len(get_all_assignments) THEN outliers
    ELSE scan_loop(i + 1, outliers \o scan_assignment(get_all_assignments[i]))

detect_outliers == scan_loop(1, missing_entries)

----------------------------------------------------------------------------
(* Drawing the stored data *)

InitRet == [op |-> "init", arg |-> <<>>, value |-> <<>>]

\* the cache built from a choice, per title, of <<>> (no such assignment) or
\* <<weight, max_score>>
AssignmentsOf(lk) ==
    LET present == SelectSeq(TitleSeq, LAMBDA t : lk[t] # <<>>)
    IN  [i \in DOMAIN present |->
            [title |-> present[i], weight |-> lk[present[i]][1],
             max_score |-> lk[present[i]][2]]]

\* the grades rows built from a choice, per (student, title), of -1 (no row) or a score
RowsOf(studs, g) ==
    LET T == Len(TitleSeq)
        all == [k \in 1..(Len(studs) * T) |->
                  [student_id |-> studs[((k - 1) \div T) + 1],
                   course_code |-> Course,
                   assignment_title |-> TitleSeq[((k - 1) % T) + 1],
                   score |-> g[studs[((k - 1) \div T) + 1], TitleSeq[((k - 1) % T) + 1]]]]
    IN  SelectSeq(all, LAMBDA r : r.score # -1)

FinalWeights == (-1)..WeightDen
FinalMaxScores == {FinalMaxScore \div 2, FinalMaxScore}
FinalLookups == [Titles -> {<<>>} \cup (FinalWeights \X FinalMaxScores)]
FinalGrades == [{1} \X Titles -> (-1)..FinalMaxScore]

----------------------------------------------------------------------------
(* One student's final grade: calculate_student_final on drawn data *)

InitFinal ==
    /\ \E g \in FinalGrades : db_grades = RowsOf(<<1>>, g)
    /\ \/ /\ course_code = Course
          /\ students = <<1>>
          /\ \E lk \in FinalLookups : assignments = AssignmentsOf(lk)
       \/ /\ course_code = NoCourse
          /\ students = <<>>
          /\ assignments = <<>>
    /\ db_assignments = assignments
    /\ ret = InitRet
    /\ writes = 0

CalculateStudentFinal ==
    /\ \E student_id \in {1, 2} :
          ret' = [op |-> "calculate_student_final", arg |-> student_id,
                  value |-> calculate_student_final(student_id)]
    /\ UNCHANGED <<course_code, students, assignments, db_assignments, db_grades, writes>>

NextFinal == CalculateStudentFinal

SpecFinal == InitFinal /\ [][NextFinal]_vars

----------------------------------------------------------------------------
(* The letter grade of a drawn score: _calculate_letter_grade *)

InitLetter ==
    /\ course_code = NoCourse
    /\ students = <<>>
    /\ assignments = <<>>
    /\ db_grades = <<>>
    /\ db_assignments = assignments
    /\ ret = InitRet
    /\ writes = 0

CalculateLetterGrade ==
    /\ \E n \in (-LetterSpan)..LetterSpan :
          ret' = [op |-> "_calculate_letter_grade", arg |-> Norm(n, 2),
                  value |-> calculate_letter_grade(Norm(n, 2))]
    /\ UNCHANGED <<course_code, students, assignments, db_assignments, db_grades, writes>>

NextLetter == CalculateLetterGrade

SpecLetter == InitLetter /\ [][NextLetter]_vars

----------------------------------------------------------------------------
(* The whole roster: calculate_final_grades and detect_outliers on drawn data. *)
(* The roster is empty, or holds all students or all but the last, in          *)
(* ascending or descending order; a student outside the roster may still own   *)
(* grades (remove_student keeps them), and a grade may name a title that is    *)
(* not in the cache.  The cache lists A before B or, B having been created     *)
(* first, B before A.                                                          *)

IdSeq(n) == [i \in 1..n |-> i]
Reverse(seq) == [i \in DOMAIN seq |-> seq[Len(seq) + 1 - i]]

RankScores == {-1, 0, 1}
RankLookups == [Titles -> {<<>>, <<WeightDen \div 2, 1>>}]
RankGrades == [(1..RankStudents) \X Titles -> RankScores]

InitRank ==
    /\ \E g \in RankGrades : db_grades = RowsOf(IdSeq(RankStudents), g)
    /\ \/ /\ course_code = Course
          /\ \E k \in {0, RankStudents - 1, RankStudents} : students \in {IdSeq(k), Reverse(IdSeq(k))}
          /\ \E lk \in RankLookups :
                assignments \in {AssignmentsOf(lk), Reverse(AssignmentsOf(lk))}
       \/ /\ course_code = NoCourse
          /\ students = <<>>
          /\ assignments = <<>>
    /\ db_assignments = assignments
    /\ ret = InitRet
    /\ writes = 0

\* bug variant: the ranking sorts the roster itself, in place
CalculateFinalGrades_sorting_roster ==
    /\ ret' = [op |-> "calculate_final_grades", arg |-> <<>>,
               value |-> calculate_final_grades]
    /\ students' = Reverse(students)
    /\ UNCHANGED <<course_code, assignments, db_assignments, db_grades, writes>>

CalculateFinalGrades ==
    /\ ret' = [op |-> "calculate_final_grades", arg |-> <<>>,
               value |-> calculate_final_grades]
    /\ UNCHANGED <<course_code, students, assignments, db_assignments, db_grades, writes>>

DetectOutliers ==
    /\ ret' = [op |-> "detect_outliers", arg |-> <<>>, value |-> detect_outliers]
    /\ UNCHANGED <<course_code, students, assignments, db_assignments, db_grades, writes>>

NextRank == CalculateFinalGrades \/ DetectOutliers

SpecRank == InitRank /\ [][NextRank]_vars

----------------------------------------------------------------------------
(* The statistical scan of one assignment: detect_outliers on the scores of    *)
(* title A.  The students are interchangeable in the scan, so their scores are *)
(* drawn in non-decreasing order of student id (-1: no score); at most one     *)
(* student has been removed from the roster: none, the first, a middle one or  *)
(* the last.  max_score is the largest score drawn or one less                 *)
(* (update_assignment lowers max_score under stored scores).                   *)

OutlierGrades ==
    {g \in [1..OutlierStudents -> (-1)..OutlierMaxScore] :
        \A i \in 1..(OutlierStudents - 1) : g[i] <= g[i + 1]}

InitOutlier ==
    /\ course_code = Course
    /\ \E removed \in {0, 1, OutlierStudents \div 2, OutlierStudents} :
          students = SelectSeq(IdSeq(OutlierStudents), LAMBDA x : x # removed)
    /\ \E max_score \in {OutlierMaxScore - 1, OutlierMaxScore} :
          assignments = <<[title |-> "A", weight |-> WeightDen,
                           max_score |-> max_score]>>
    /\ \E g \in OutlierGrades :
          db_grades = RowsOf(IdSeq(OutlierStudents),
                             [p \in (1..OutlierStudents) \X Titles |->
                                 IF p[2] = "A" THEN g[p[1]] ELSE -1])
    /\ db_assignments = assignments
    /\ ret = InitRet
    /\ writes = 0

NextOutlier == DetectOutliers \/ CalculateFinalGrades

SpecOutlier == InitOutlier /\ [][NextOutlier]_vars

----------------------------------------------------------------------------
(* The worked example of the statistical scan: scores 50, 52, 51, 53 and 0 on  *)
(* title A, drawn for every student in every order (-1: no score), the whole   *)
(* roster present.                                                             *)

ExampleScores == {-1, 0, 50, 51, 52, 53}

InitExample ==
    /\ course_code = Course
    /\ students = IdSeq(ExampleStudents)
    /\ assignments = <<[title |-> "A", weight |-> WeightDen,
                        max_score |-> ExampleMaxScore]>>
    /\ \E g \in [1..ExampleStudents -> ExampleScores] :
          db_grades = RowsOf(IdSeq(ExampleStudents),
                             [p \in (1..ExampleStudents) \X Titles |->
                                 IF p[2] = "A" THEN g[p[1]] ELSE -1])
    /\ db_assignments = assignments
    /\ ret = InitRet
    /\ writes = 0

NextExample == DetectOutliers

SpecExample == InitExample /\ [][NextExample]_vars

-----------------------------------------------------------------------------
(* calculate_student_final in binary floating point.  A Python float is a      *)
(* binary number with a significand of 53 bits, and every operation returns    *)
(* the exact result rounded to the nearest such number, ties to even.  The     *)
(* definitions below take the significand's width from FloatBits; exponents   *)
(* are unbounded (no overflow or underflow happens at these magnitudes).       *)
(* Weights are typed as decimals, weight / DecimalDen, and parsed by float().  *)

FloatBits == 8
DecimalDen == 10
FloatMaxScore == 2

RECURSIVE Pow2(_)
Pow2(k) == IF k = 0 THEN 1 ELSE 2 * Pow2(k - 1)

\* the exponent e with 2^(FloatBits-1) <= q / 2^e < 2^FloatBits, for q > 0
RECURSIVE exponent_of(_, _)
exponent_of(q, e) ==
    IF RGe(q, Int2R(Pow2(FloatBits))) THEN exponent_of(RDiv(q, Int2R(2)), e + 1)
    ELSE IF RLt(q, Int2R(Pow2(FloatBits - 1))) THEN exponent_of(RMul(q, Int2R(2)), e - 1)
    ELSE e

\* the float nearest to the rational q >= 0, ties to the even significand
round_float(q) ==
    IF q[1] = 0 THEN Int2R(0)
    ELSE LET e == exponent_of(q, 0)
             scaled == IF e >= 0 THEN RDiv(q, Int2R(Pow2(e)))
                       ELSE RMul(q, Int2R(Pow2(-e)))
             m == scaled[1] \div scaled[2]
             twice == 2 * (scaled[1] % scaled[2])
             up == twice > scaled[2] \/ (twice = scaled[2] /\ m % 2 = 1)
             rounded == IF up THEN m + 1 ELSE m
         IN  IF e >= 0 THEN Int2R(rounded * Pow2(e)) ELSE Norm(rounded, Pow2(-e))

float_add(a, b) == round_float(RAdd(a, b))
float_mul(a, b) == round_float(RMul(a, b))
float_div(a, b) == round_float(RDiv(a, b))

\* float("0.3"): the float nearest to the typed decimal
float_of_decimal(weight) == round_float(Norm(weight, DecimalDen))

\* the loop of lines 166-172 in float arithmetic; acc = <<weighted_total, total_weight>>
RECURSIVE float_final_loop(_, _, _)
float_final_loop(items, i, acc) ==
    IF i > Len(items) THEN acc
    ELSE LET assignment == get_assignment(items[i][1])
             score == items[i][2]
         IN  IF assignment # NoneValue
             THEN LET percentage == float_mul(float_div(Int2R(score),
                                                        Int2R(assignment.max_score)),
                                              Int2R(Percent))
                      weight == float_of_decimal(assignment.weight)
                  IN  float_final_loop(items, i + 1,
                                       <<float_add(acc[1], float_mul(percentage, weight)),
                                         float_add(acc[2], weight)>>)
             ELSE float_final_loop(items, i + 1, acc)

float_finalize(weighted_total, total_weight) ==
    IF RGt(total_weight, Int2R(0))
    THEN IF RLt(total_weight, Int2R(FullWeight))
         THEN float_div(weighted_total, total_weight)
         ELSE weighted_total
    ELSE Int2R(0)

float_final_from(student_grades) ==
    IF student_grades = <<>> THEN NoneValue
    ELSE LET acc == float_final_loop(student_grades, 1, <<Int2R(0), Int2R(0)>>)
             final_grade == float_finalize(acc[1], acc[2])
         IN  [weighted_total |-> final_grade,
              letter_grade |-> calculate_letter_grade(final_grade)]

FloatLookups == [Titles -> {<<>>} \cup ((0..DecimalDen) \X {1, FloatMaxScore})]
FloatGrades == [{1} \X Titles -> (-1)..FloatMaxScore]

InitFloat ==
    /\ course_code = Course
    /\ students = <<1>>
    /\ \E lk \in FloatLookups : assignments = AssignmentsOf(lk)
    /\ \E g \in FloatGrades : db_grades = RowsOf(<<1>>, g)
    /\ db_assignments = assignments
    /\ ret = InitRet
    /\ writes = 0

CalculateStudentFinalFloat ==
    /\ ret' = [op |-> "calculate_student_final", arg |-> 1,
               value |-> float_final_from(get_student_grades(1))]
    /\ UNCHANGED <<course_code, students, assignments, db_assignments, db_grades, writes>>

NextFloat == CalculateStudentFinalFloat

SpecFloat == InitFloat /\ [][NextFloat]_vars

----------------------------------------------------------------------------
(* The application: the operations of the PyGrade menus on one course.  Every  *)
(* menu returns at once while no course is loaded.  A write stores in ret what *)
(* the manager's method returned ("True", "False"), or the exception that      *)
(* left the handler.  GradeManager.grades, a cache that is written and never   *)
(* read, is left out.                                                          *)

Keep == -1      \* an input left empty: the field keeps its value (None)
NoTitle == ""   \* the empty new title; `new_title or None`

AppWeights == {WeightDen \div 2}
AppNewWeights == {Keep, WeightDen}
AppNewMaxScores == {Keep, AppMaxScore - 1}

TitleIn(rows, title) == \E i \in DOMAIN rows : rows[i].title = title
TitlesOf(rows) == {rows[i].title : i \in DOMAIN rows}

\* assignments[title] = record: a new key goes last, a known key keeps its place
DictSet(rows, record) ==
    IF TitleIn(rows, record.title)
    THEN [i \in DOMAIN rows |-> IF rows[i].title = record.title THEN record ELSE rows[i]]
    ELSE Append(rows, record)

\* del assignments[title]
DictDel(rows, title) == SelectSeq(rows, LAMBDA a : a.title # title)

\* the rows of the grades table of one title in the current course
GradeRowsOf(title) ==
    {i \in DOMAIN db_grades : /\ db_grades[i].course_code = course_code
                              /\ db_grades[i].assignment_title = title}

GradesWithout_nothing_deleted(title) == db_grades

\* DELETE FROM grades WHERE course_code = ? AND assignment_title = ?
GradesWithout(title) ==
    SelectSeq(db_grades, LAMBDA r : ~(r.course_code = course_code
                                      /\ r.assignment_title = title))

Init ==
    /\ course_code = NoCourse
    /\ students = <<>>
    /\ assignments = <<>>
    /\ db_assignments = <<>>
    /\ db_grades = <<>>
    /\ ret = InitRet
    /\ writes = 0

\* PyGrade.create_course / load_course: set_course on the three managers; the
\* roster is read back from the course's file, the cache from the database
LoadCourse ==
    /\ writes < MaxWrites
    /\ writes' = writes + 1
    /\ course_code' = Course
    /\ students' = students
    /\ assignments' = db_assignments
    /\ ret' = [op |-> "load_course", arg |-> Course, value |-> "True"]
    /\ UNCHANGED <<db_assignments, db_grades>>

\* PyGrade.add_student_manual -> StudentManager.add_student
AddStudent ==
    /\ writes < MaxWrites
    /\ writes' = writes + 1
    /\ course_code # NoCourse
    /\ \E student_id \in 1..AppStudents :
          IF get_student(student_id)
          THEN /\ ret' = [op |-> "add_student", arg |-> student_id, value |-> "False"]
               /\ UNCHANGED students
          ELSE /\ students' = Append(students, student_id)
               /\ ret' = [op |-> "add_student", arg |-> student_id, value |-> "True"]
    /\ UNCHANGED <<course_code, assignments, db_assignments, db_grades>>

\* PyGrade.remove_student -> StudentManager.remove_student: the roster entry is
\* deleted and the roster saved; the grades table is not touched
RemoveStudent ==
    /\ writes < MaxWrites
    /\ writes' = writes + 1
    /\ course_code # NoCourse
    /\ \E student_id \in 1..AppStudents :
          IF ~get_student(student_id)
          THEN /\ ret' = [op |-> "remove_student", arg |-> student_id, value |-> "False"]
               /\ UNCHANGED students
          ELSE /\ students' = SelectSeq(students, LAMBDA s : s # student_id)
               /\ ret' = [op |-> "remove_student", arg |-> student_id, value |-> "True"]
    /\ UNCHANGED <<course_code, assignments, db_assignments, db_grades>>

\* PyGrade.create_assignment -> AssignmentManager.create_assignment ->
\* DatabaseManager.create_assignment: the INSERT fails on UNIQUE(course_code, title)
CreateAssignment ==
    /\ writes < MaxWrites
    /\ writes' = writes + 1
    /\ course_code # NoCourse
    /\ \E title \in Titles, weight \in AppWeights :
          LET record == [title |-> title, weight |-> weight, max_score |-> AppMaxScore]
          IN  IF TitleIn(db_assignments, title)
              THEN /\ ret' = [op |-> "create_assignment", arg |-> record, value |-> "False"]
                   /\ UNCHANGED <<assignments, db_assignments>>
              ELSE /\ db_assignments' = Append(db_assignments, record)
                   /\ assignments' = DictSet(assignments, record)
                   /\ ret' = [op |-> "create_assignment", arg |-> record, value |-> "True"]
    /\ UNCHANGED <<course_code, students, db_grades>>

\* the fields of an assignment after an update with these inputs
Updated(record, new_title, weight, max_score) ==
    [title |-> IF new_title # NoTitle THEN new_title ELSE record.title,
     weight |-> IF weight # Keep THEN weight ELSE record.weight,
     max_score |-> IF max_score # Keep THEN max_score ELSE record.max_score]

\* DatabaseManager.update_assignment: what it returns (or raises) and the two
\* tables it leaves.  With a new title the value returned is the rowcount of the
\* UPDATE of grades, the last statement executed.
db_update_assignment(old_title, new_title, weight, max_score) ==
    LET unchanged == [rows |-> db_assignments, grades |-> db_grades]
        renaming == new_title # NoTitle
        has_row == TitleIn(db_assignments, old_title)
        title_taken == /\ renaming /\ new_title # old_title /\ has_row
                       /\ TitleIn(db_assignments, new_title)
        grade_taken == /\ renaming /\ new_title # old_title
                       /\ \E i \in GradeRowsOf(old_title), j \in GradeRowsOf(new_title) :
                             db_grades[i].student_id = db_grades[j].student_id
        rows == [i \in DOMAIN db_assignments |->
                    IF db_assignments[i].title = old_title
                    THEN Updated(db_assignments[i], new_title, weight, max_score)
                    ELSE db_assignments[i]]
        grades == [i \in DOMAIN db_grades |->
                      IF renaming /\ i \in GradeRowsOf(old_title)
                      THEN [db_grades[i] EXCEPT !.assignment_title = new_title]
                      ELSE db_grades[i]]
        rowcount == IF renaming THEN Cardinality(GradeRowsOf(old_title))
                    ELSE IF has_row THEN 1 ELSE 0
    IN  IF ~renaming /\ weight = Keep /\ max_score = Keep
        THEN [result |-> "False"] @@ unchanged
        ELSE IF title_taken \/ grade_taken
        THEN [result |-> "IntegrityError"] @@ unchanged
        ELSE [result |-> IF rowcount > 0 THEN "True" ELSE "False",
              rows |-> rows, grades |-> grades]

\* AssignmentManager.update_assignment, lines 115-123: the cache after a True
cache_update(title, new_title, weight, max_score) ==
    LET assignment == Updated(get_assignment(title), new_title, weight, max_score)
    IN  IF new_title # NoTitle /\ new_title # title
        THEN DictDel(DictSet(assignments, assignment), title)
        ELSE DictSet(assignments, assignment)

\* PyGrade.edit_assignment -> AssignmentManager.update_assignment: the title is
\* picked from the cached list, the three inputs are not validated.  An
\* IntegrityError is caught nowhere: the process ends, and the next session
\* starts with no course loaded (students keeps what the roster file holds).
UpdateAssignment ==
    /\ writes < MaxWrites
    /\ writes' = writes + 1
    /\ course_code # NoCourse
    /\ \E choice \in DOMAIN assignments, new_title \in Titles \cup {NoTitle},
          weight \in AppNewWeights, max_score \in AppNewMaxScores :
          LET title == assignments[choice].title
              arg == <<title, new_title, weight, max_score>>
              db == db_update_assignment(title, new_title, weight, max_score)
          IN  IF new_title # NoTitle /\ new_title # title /\ TitleIn(assignments, new_title)
              THEN /\ ret' = [op |-> "update_assignment", arg |-> arg, value |-> "False"]
                   /\ UNCHANGED <<course_code, assignments, db_assignments, db_grades>>
              ELSE /\ ret' = [op |-> "update_assignment", arg |-> arg, value |-> db.result]
                   /\ db_assignments' = db.rows
                   /\ db_grades' = db.grades
                   /\ assignments' =
                         IF db.result = "True"
                         THEN cache_update(title, new_title, weight, max_score)
                         ELSE IF db.result = "IntegrityError" THEN <<>>
                         ELSE assignments
                   /\ course_code' =
                         IF db.result = "IntegrityError" THEN NoCourse ELSE course_code
    /\ UNCHANGED students

\* PyGrade.delete_assignment -> AssignmentManager.delete_assignment ->
\* DatabaseManager.delete_assignment (the grades of the title go first, the value
\* is the rowcount of the DELETE of the assignment), then
\* GradeManager.delete_assignment_grades
DeleteAssignment ==
    /\ writes < MaxWrites
    /\ writes' = writes + 1
    /\ course_code # NoCourse
    /\ \E title \in Titles :
          IF ~TitleIn(assignments, title)
          THEN /\ ret' = [op |-> "delete_assignment", arg |-> title, value |-> "False"]
               /\ UNCHANGED <<assignments, db_assignments, db_grades>>
          ELSE /\ db_grades' = GradesWithout(title)
               /\ db_assignments' = DictDel(db_assignments, title)
               /\ IF TitleIn(db_assignments, title)
                  THEN /\ assignments' = DictDel(assignments, title)
                       /\ ret' = [op |-> "delete_assignment", arg |-> title,
                                  value |-> "True"]
                  ELSE /\ ret' = [op |-> "delete_assignment", arg |-> title,
                                  value |-> "False"]
                       /\ UNCHANGED assignments
    /\ UNCHANGED <<course_code, students>>

\* DatabaseManager.enter_grade: INSERT ... ON CONFLICT DO UPDATE SET score
db_enter_grade_insert_only(student_id, course, assignment_title, score) ==
    Append(db_grades, [student_id |-> student_id, course_code |-> course,
                       assignment_title |-> assignment_title, score |-> score])

db_enter_grade(student_id, course, assignment_title, score) ==
    LET same(r) == /\ r.student_id = student_id /\ r.course_code = course
                   /\ r.assignment_title = assignment_title
        row == [student_id |-> student_id, course_code |-> course,
                assignment_title |-> assignment_title, score |-> score]
    IN  IF \E i \in DOMAIN db_grades : same(db_grades[i])
        THEN [i \in DOMAIN db_grades |-> IF same(db_grades[i]) THEN row ELSE db_grades[i]]
        ELSE Append(db_grades, row)

\* PyGrade.enter_grade -> GradeManager.enter_grade: the student must be in the
\* roster, the title in the cache, the score in [0, max_score] of the cache
EnterGrade ==
    /\ writes < MaxWrites
    /\ writes' = writes + 1
    /\ course_code # NoCourse
    /\ \E student_id \in 1..AppStudents, title \in Titles, score \in 0..AppMaxScore :
          LET arg == <<student_id, title, score>>
              assignment == get_assignment(title)
          IN  IF /\ get_student(student_id)
                 /\ assignment # NoneValue
                 /\ 0 <= score /\ score <= assignment.max_score
              THEN /\ db_grades' = db_enter_grade(student_id, course_code, title, score)
                   /\ ret' = [op |-> "enter_grade", arg |-> arg, value |-> "True"]
              ELSE /\ ret' = [op |-> "enter_grade", arg |-> arg, value |-> "False"]
                   /\ UNCHANGED db_grades
    /\ UNCHANGED <<course_code, students, assignments, db_assignments>>

\* the application with a course loaded and its roster filled
InitRoster ==
    /\ course_code = Course
    /\ students = IdSeq(AppStudents)
    /\ assignments = <<>>
    /\ db_assignments = <<>>
    /\ db_grades = <<>>
    /\ ret = [op |-> "load_course", arg |-> Course, value |-> "True"]
    /\ writes = 0

NextRoster ==
    \/ LoadCourse
    \/ CreateAssignment
    \/ UpdateAssignment
    \/ EnterGrade

SpecRoster == InitRoster /\ [][NextRoster]_vars

\* GradeManager.enter_grade called on its own: no check of roster, cache or range
GradeManagerEnterGrade ==
    /\ writes = 0
    /\ writes' = writes + 1
    /\ \E student_id \in 1..AppStudents, title \in Titles, score \in 0..AppMaxScore :
          LET arg == <<student_id, title, score>>
          IN  IF course_code = NoCourse
              THEN /\ ret' = [op |-> "enter_grade", arg |-> arg, value |-> "False"]
                   /\ UNCHANGED db_grades
              ELSE /\ db_grades' = db_enter_grade(student_id, course_code, title, score)
                   /\ ret' = [op |-> "enter_grade", arg |-> arg, value |-> "True"]
    /\ UNCHANGED <<course_code, students, assignments, db_assignments>>

\* GradeManager.get_student_grades / get_assignment_grades as calls
GetGrades ==
    /\ \/ \E student_id \in 1..AppStudents :
             ret' = [op |-> "get_student_grades", arg |-> student_id,
                     value |-> get_student_grades(student_id)]
       \/ \E title \in Titles :
             ret' = [op |-> "get_assignment_grades", arg |-> title,
                     value |-> get_assignment_grades(title)]
    /\ UNCHANGED <<course_code, students, assignments, db_assignments, db_grades, writes>>

\* a grades table of any content, before a course is set and after
GradesScores == {MISSING, 0, AppMaxScore}

InitGrades ==
    /\ course_code \in {NoCourse, Course}
    /\ students = IF course_code = NoCourse THEN <<>> ELSE IdSeq(AppStudents)
    /\ db_assignments =
          [i \in DOMAIN TitleSeq |->
              [title |-> TitleSeq[i], weight |-> WeightDen \div 2, max_score |-> AppMaxScore]]
    /\ assignments = IF course_code = NoCourse THEN <<>> ELSE db_assignments
    /\ \E g \in [(1..AppStudents) \X Titles -> GradesScores] :
          db_grades = RowsOf(IdSeq(AppStudents), g)
    /\ ret = InitRet
    /\ writes = 0

NextGrades == GradeManagerEnterGrade \/ GetGrades

SpecGrades == InitGrades /\ [][NextGrades]_vars

Next ==
    \/ LoadCourse
    \/ AddStudent
    \/ RemoveStudent
    \/ CreateAssignment
    \/ UpdateAssignment
    \/ DeleteAssignment
    \/ EnterGrade
    \/ CalculateStudentFinal
    \/ CalculateFinalGrades
    \/ DetectOutliers

Spec == Init /\ [][Next]_vars

----------------------------------------------------------------------------
(* What the claims speak of, read off the stored data directly *)

\* the student's recorded scores in the current course
RecordedRows(student_id) ==
    {r \in Range(db_grades) : r.student_id = student_id /\ r.course_code = course_code}

LookupTitles == {a.title : a \in Range(assignments)}
Lookup(title) == CHOOSE a \in Range(assignments) : a.title = title

FindableRows(student_id) ==
    {r \in RecordedRows(student_id) : r.assignment_title \in LookupTitles}

\* S: the sum of (score / max_score * 100) * weight over a set of findable rows
RECURSIVE SumS(_)
SumS(rows) ==
    IF rows = {} THEN Int2R(0)
    ELSE LET r == CHOOSE x \in rows : TRUE
             a == Lookup(r.assignment_title)
         IN  RAdd(Norm(r.score * 100 * a.weight, a.max_score * WeightDen),
                  SumS(rows \ {r}))

\* W: the sum of the weights over a set of findable rows
RECURSIVE SumW(_)
SumW(rows) ==
    IF rows = {} THEN Int2R(0)
    ELSE LET r == CHOOSE x \in rows : TRUE
         IN  RAdd(Norm(Lookup(r.assignment_title).weight, WeightDen), SumW(rows \ {r}))

FinalCalled == ret.op = "calculate_student_final"

\* C1: the weighted_total returned by calculate_student_final is S / W when
\* 0 < W < 1 and S itself when W >= 1, S and W summed over the student's recorded
\* scores whose assignment is in the lookup.
C1_FinalizationPolicy ==
    (FinalCalled /\ RecordedRows(ret.arg) # {}) =>
        LET S == SumS(FindableRows(ret.arg))
            W == SumW(FindableRows(ret.arg))
        IN  /\ ret.value # NoneValue
            /\ (W[1] > 0 /\ W[1] < W[2]) => ret.value.weighted_total = RDiv(S, W)
            /\ W[1] >= W[2] => ret.value.weighted_total = S

\* C1 witness: only A (weight 0.5, max 10) is graded, with 8: 40 / 0.5 = 80
C1_Witness ==
    /\ FinalCalled
    /\ {<<r.assignment_title, r.score>> : r \in RecordedRows(ret.arg)} = {<<"A", 8>>}
    /\ assignments # <<>>
    /\ assignments[1] = [title |-> "A", weight |-> WeightDen \div 2, max_score |-> 10]
    /\ ret.value.weighted_total = Int2R(80)
    /\ ret.value.letter_grade = "B"

\* C2: calculate_student_final returns None exactly when the student has no
\* recorded score in the current course, whatever the assignment lookup holds.
C2_AbsentIffNoScores ==
    FinalCalled => (ret.value = NoneValue <=> RecordedRows(ret.arg) = {})

\* C2 witness: a course with assignments, a student without any score, None returned
C2_Witness ==
    /\ FinalCalled
    /\ course_code = Course
    /\ Len(assignments) = 2
    /\ RecordedRows(ret.arg) = {}
    /\ db_grades # <<>>
    /\ ret.value = NoneValue

RemoveAt(seq, i) == [k \in 1..(Len(seq) - 1) |-> IF k < i THEN seq[k] ELSE seq[k + 1]]

\* C3: a recorded score whose assignment is not in the lookup adds nothing: the
\* value returned is the one computed from the mapping without that entry (and is
\* 0.0 when that entry is the only one).
C3_MissingAssignmentSkipped ==
    FinalCalled =>
        LET items == get_student_grades(ret.arg)
        IN  \A i \in DOMAIN items :
                items[i][1] \notin LookupTitles =>
                    /\ ret.value # NoneValue
                    /\ IF Len(items) = 1
                       THEN ret.value.weighted_total = Int2R(0)
                       ELSE ret.value = final_from(RemoveAt(items, i))

\* C3 witness: A is recorded but not in the lookup, B is recorded and in the lookup
C3_Witness ==
    /\ FinalCalled
    /\ LookupTitles = {"B"}
    /\ {r.assignment_title : r \in RecordedRows(ret.arg)} = {"A", "B"}
    /\ \E r \in RecordedRows(ret.arg) : r.assignment_title = "A" /\ r.score > 0
    /\ ret.value # NoneValue
    /\ ret.value.weighted_total = Int2R(70)

\* C4: with at least one recorded score and a total weight seen of 0,
\* calculate_student_final returns 0.0 and F, not None.
C4_ZeroWeightGivesZeroF ==
    (FinalCalled /\ RecordedRows(ret.arg) # {}
                 /\ SumW(FindableRows(ret.arg)) = Int2R(0)) =>
        ret.value = [weighted_total |-> Int2R(0), letter_grade |-> "F"]

\* C4 witness: every recorded score names an assignment that is not in the lookup
C4_Witness ==
    /\ FinalCalled
    /\ RecordedRows(ret.arg) # {}
    /\ FindableRows(ret.arg) = {}
    /\ \E r \in RecordedRows(ret.arg) : r.score > 0
    /\ ret.value = [weighted_total |-> Int2R(0), letter_grade |-> "F"]

LetterCalled == ret.op = "_calculate_letter_grade"

\* C5: the letter is A from 90 up, B on [80, 90), C on [70, 80), D on [60, 70)
\* and F below 60, for every score, also above 100 and below 0.
C5_LetterGradeBoundaries ==
    LetterCalled =>
        LET n == ret.arg[1]
            d == ret.arg[2]
        IN  /\ ret.value = "A" <=> n >= 90 * d
            /\ ret.value = "B" <=> (80 * d <= n /\ n < 90 * d)
            /\ ret.value = "C" <=> (70 * d <= n /\ n < 80 * d)
            /\ ret.value = "D" <=> (60 * d <= n /\ n < 70 * d)
            /\ ret.value = "F" <=> n < 60 * d

\* C5 witness: exactly 90 gives A
C5_Witness == LetterCalled /\ ret.arg = Int2R(90) /\ ret.value = "A"

RankCalled == ret.op = "calculate_final_grades"
DetectCalled == ret.op = "detect_outliers"

\* C6: the sequence returned by calculate_final_grades is non-increasing in
\* weighted_total from each entry to the next.
C6_SortedNonIncreasing ==
    RankCalled =>
        \A i \in 1..(Len(ret.value) - 1) :
            ret.value[i + 1].weighted_total[1] * ret.value[i].weighted_total[2]
                <= ret.value[i].weighted_total[1] * ret.value[i + 1].weighted_total[2]

\* C6 witness: three entries with three different totals, the roster's first
\* student not being the best
C6_Witness ==
    /\ RankCalled
    /\ Len(ret.value) = 3
    /\ ret.value[1].weighted_total # ret.value[2].weighted_total
    /\ ret.value[2].weighted_total # ret.value[3].weighted_total
    /\ ret.value[3].student_id = students[1]

\* C7: calculate_final_grades holds exactly one entry for every student of the
\* roster with a recorded score in the current course, none for anybody else, and
\* every entry carries what calculate_student_final returns for its student.
C7_EntriesAreTheGradedRoster ==
    RankCalled =>
        /\ \A s \in Range(students) :
               RecordedRows(s) # {} =>
                   Cardinality({i \in DOMAIN ret.value : ret.value[i].student_id = s}) = 1
        /\ \A i \in DOMAIN ret.value :
               LET e == ret.value[i]
               IN  /\ e.student_id \in Range(students)
                   /\ RecordedRows(e.student_id) # {}
                   /\ calculate_student_final(e.student_id)
                        = [weighted_total |-> e.weighted_total,
                           letter_grade |-> e.letter_grade]

\* C7 witness: of the roster one student has scores (worth 0.0) and one has none,
\* and a student outside the roster has scores too
C7_Witness ==
    /\ RankCalled
    /\ Len(ret.value) = 1
    /\ ret.value[1].weighted_total = Int2R(0)
    /\ \E s \in Range(students) : RecordedRows(s) = {}
    /\ \E r \in Range(db_grades) : r.student_id \notin Range(students)

RosterIndex(student_id) == CHOOSE k \in DOMAIN students : students[k] = student_id

\* C8: entries with equal weighted_total stand in the order of their students in
\* the roster sequence.
C8_TiesKeepRosterOrder ==
    RankCalled =>
        \A i, j \in DOMAIN ret.value :
            (i < j /\ ret.value[i].weighted_total = ret.value[j].weighted_total) =>
                RosterIndex(ret.value[i].student_id) < RosterIndex(ret.value[j].student_id)

\* C8 witness: a roster in descending id order, two tied students behind a better
\* one who comes last in the roster
C8_Witness ==
    /\ RankCalled
    /\ Len(students) = 3
    /\ students[1] > students[2]
    /\ Len(ret.value) = 3
    /\ ret.value[1].student_id = students[3]
    /\ ret.value[2].weighted_total = ret.value[3].weighted_total
    /\ ret.value[1].weighted_total # ret.value[2].weighted_total

HasScore(student_id, title) ==
    \E r \in RecordedRows(student_id) : r.assignment_title = title

MissingEntries(student_id, title) ==
    {i \in DOMAIN ret.value : /\ ret.value[i].reason = "Missing grade"
                              /\ ret.value[i].student_id = student_id
                              /\ ret.value[i].assignment = title}

\* C9: detect_outliers emits exactly one "Missing grade" entry, with the MISSING
\* marker, for every (student of the roster, listed assignment) without a recorded
\* score, and none for any pair with a recorded score or outside roster and list.
C9_MissingGradeExactlyOnce ==
    DetectCalled =>
        /\ \A s \in Range(students) : \A t \in LookupTitles :
               Cardinality(MissingEntries(s, t)) = IF HasScore(s, t) THEN 0 ELSE 1
        /\ \A i \in DOMAIN ret.value :
               ret.value[i].reason = "Missing grade" =>
                   /\ ret.value[i].score = MISSING
                   /\ ret.value[i].student_id \in Range(students)
                   /\ ret.value[i].assignment \in LookupTitles

\* C9 witness: a student with a score for A and none for B gets the entry for B
C9_Witness ==
    /\ DetectCalled
    /\ LookupTitles = {"A", "B"}
    /\ \E s \in Range(students) :
          /\ HasScore(s, "A") /\ ~HasScore(s, "B")
          /\ Cardinality(MissingEntries(s, "B")) = 1
          /\ MissingEntries(s, "A") = {}

\* the recorded scores of a title in the current course
TitleRows(title) ==
    {r \in Range(db_grades) : r.assignment_title = title /\ r.course_code = course_code}

RECURSIVE SumScores(_)
SumScores(rows) ==
    IF rows = {} THEN 0
    ELSE LET r == CHOOSE x \in rows : TRUE IN r.score + SumScores(rows \ {r})

RECURSIVE SumSquares(_)
SumSquares(rows) ==
    IF rows = {} THEN 0
    ELSE LET r == CHOOSE x \in rows : TRUE IN r.score * r.score + SumSquares(rows \ {r})

HasUnusualEntry(r) ==
    \E i \in DOMAIN ret.value : /\ ret.value[i].reason = "Unusual score"
                                 /\ ret.value[i].student_id = r.student_id
                                 /\ ret.value[i].assignment = r.assignment_title
                                 /\ ret.value[i].score = r.score

\* |x - mean| / stdev > 2 with the (n - 1) standard deviation, in integers:
\* (n * x - S)^2 * (n - 1) > 4 * n * (n * Q - S^2)
BeyondTwoSigma(r) ==
    LET rows == TitleRows(r.assignment_title)
        n == Cardinality(rows)
        S == SumScores(rows)
        Q == SumSquares(rows)
    IN  (n * r.score - S) * (n * r.score - S) * (n - 1) > 4 * n * (n * Q - S * S)

Scanned(title) ==
    LET rows == TitleRows(title)
        n == Cardinality(rows)
    IN  /\ title \in LookupTitles
        /\ n >= 3
        /\ n * SumSquares(rows) - SumScores(rows) * SumScores(rows) # 0

\* C10 as stated: with at least 3 recorded scores and a non-zero standard
\* deviation, every recorded score has an "Unusual score" entry exactly when it
\* lies more than 2 sample standard deviations from the mean.
C10_UnusualIffBeyondTwoSigma_AnyScore ==
    DetectCalled =>
        \A r \in Range(db_grades) :
            (r.course_code = course_code /\ Scanned(r.assignment_title)) =>
                (HasUnusualEntry(r) <=> BeyondTwoSigma(r))

\* C10 for the roster: the same for every recorded score of a student who is in the
\* roster; the scores of the other students still count in n, mean and deviation.
C10_UnusualIffBeyondTwoSigma ==
    DetectCalled =>
        \A r \in Range(db_grades) :
            (r.course_code = course_code /\ Scanned(r.assignment_title)
                                        /\ r.student_id \in Range(students)) =>
                (HasUnusualEntry(r) <=> BeyondTwoSigma(r))

\* C10 witness: six scores, the highest flagged, while a student who was removed
\* from the roster still has a score among them
C10_Witness ==
    /\ DetectCalled
    /\ Len(students) = OutlierStudents - 1
    /\ Cardinality(TitleRows("A")) = OutlierStudents
    /\ \E r \in TitleRows("A") :
          /\ r.student_id \in Range(students)
          /\ BeyondTwoSigma(r)
          /\ HasUnusualEntry(r)
    /\ \E r \in TitleRows("A") :
          /\ r.student_id \in Range(students)
          /\ r.score # 0
          /\ ~BeyondTwoSigma(r)
          /\ ~HasUnusualEntry(r)

\* the entries of one kind that detect_outliers returned for a (student, title)
KindEntries(student_id, title, reason) ==
    {i \in DOMAIN ret.value : /\ ret.value[i].reason = reason
                              /\ ret.value[i].student_id = student_id
                              /\ ret.value[i].assignment = title}

UnusualEntries(student_id, title) == KindEntries(student_id, title, "Unusual score")
ZeroEntries(student_id, title) ==
    KindEntries(student_id, title, "Zero score - possible issue")
PerfectEntries(student_id, title) ==
    KindEntries(student_id, title, "Perfect score while class average is low")

\* the recorded scores of title A are 50, 52, 51, 53 and 0, one per student
ExampleCase ==
    /\ Cardinality(TitleRows("A")) = 5
    /\ {r.score : r \in TitleRows("A")} = {0, 50, 51, 52, 53}
    /\ \A r \in TitleRows("A") : r.student_id \in Range(students)

\* C11 as stated: for the scores 50, 52, 51, 53, 0 the student who scored 0 gets
\* both an "Unusual score" entry and a "Zero score" entry.
C11_ExampleZeroAndUnusual ==
    (DetectCalled /\ ExampleCase) =>
        \A r \in TitleRows("A") :
            r.score = 0 => /\ UnusualEntries(r.student_id, "A") # {}
                           /\ ZeroEntries(r.student_id, "A") # {}

\* C11 amended: for the scores 50, 52, 51, 53, 0 (mean 41.2, stdev 23.06, z of
\* the 0 about 1.79) the student who scored 0 gets exactly one "Zero score"
\* entry and no "Unusual score" entry; no other score gets any entry.
C11_ExampleZeroOnly ==
    (DetectCalled /\ ExampleCase) =>
        /\ Cardinality({i \in DOMAIN ret.value :
                            ret.value[i].reason # "Missing grade"}) = 1
        /\ \A r \in TitleRows("A") :
               r.score = 0 => /\ UnusualEntries(r.student_id, "A") = {}
                              /\ Cardinality(ZeroEntries(r.student_id, "A")) = 1

\* C11 witness: the example has been scanned, in the order 50, 52, 51, 53, 0
C11_Witness ==
    /\ DetectCalled
    /\ ExampleCase
    /\ \A r \in TitleRows("A") :
          r.score = (IF r.student_id = 5 THEN 0
                     ELSE IF r.student_id = 1 THEN 50
                     ELSE IF r.student_id = 2 THEN 52
                     ELSE IF r.student_id = 3 THEN 51 ELSE 53)
    /\ \E i \in DOMAIN ret.value : ret.value[i].student_id = 5

\* C12: for an assignment with fewer than 3 recorded scores detect_outliers
\* returns no "Unusual score", "Zero score" or "Perfect score" entry, whatever the
\* scores are; every entry that names it is a "Missing grade" entry.
C12_SmallSampleNotScanned ==
    DetectCalled =>
        \A t \in Titles :
            Cardinality(TitleRows(t)) < MinSample =>
                \A i \in DOMAIN ret.value :
                    ret.value[i].assignment = t => ret.value[i].reason = "Missing grade"

\* C12 witness: title A has two scores of rostered students, a 0 and a max_score,
\* and the only entry that names A is the third student's "Missing grade"
C12_Witness ==
    /\ DetectCalled
    /\ "A" \in LookupTitles
    /\ Cardinality(TitleRows("A")) = 2
    /\ \E r \in TitleRows("A") : r.score = 0 /\ r.student_id \in Range(students)
    /\ \E r \in TitleRows("A") : r.score = Lookup("A").max_score
                                  /\ r.student_id \in Range(students)
    /\ \E i \in DOMAIN ret.value : ret.value[i].assignment = "A"
    /\ \A i \in DOMAIN ret.value :
          ret.value[i].assignment = "A" => ret.value[i].reason = "Missing grade"

\* at least 3 recorded scores on a listed title, all of them the same
Degenerate(title) ==
    /\ title \in LookupTitles
    /\ Cardinality(TitleRows(title)) >= MinSample
    /\ Cardinality({r.score : r \in TitleRows(title)}) = 1

Sampled(title) ==
    /\ title \in LookupTitles
    /\ Cardinality(TitleRows(title)) >= MinSample

\* C14 as stated: with at least 3 recorded scores, every recorded score equal
\* to 0 receives exactly one "Zero score" entry and no other score receives one.
C14_ZeroFlagged_AnyScore ==
    DetectCalled =>
        \A r \in Range(db_grades) :
            (r.course_code = course_code /\ Sampled(r.assignment_title)) =>
                Cardinality(ZeroEntries(r.student_id, r.assignment_title)) =
                    (IF r.score = 0 THEN 1 ELSE 0)

\* C14 for the roster: the same for every recorded score of a student who is in
\* the roster.
C14_ZeroFlagged ==
    DetectCalled =>
        \A r \in Range(db_grades) :
            (r.course_code = course_code /\ Sampled(r.assignment_title)
                                        /\ r.student_id \in Range(students)) =>
                Cardinality(ZeroEntries(r.student_id, r.assignment_title)) =
                    (IF r.score = 0 THEN 1 ELSE 0)

\* C14 witness: among three or more scores, a 0 with its entry and a non-zero
\* score without one
C14_Witness ==
    /\ DetectCalled
    /\ Sampled("A")
    /\ \E r \in TitleRows("A") :
          /\ r.score = 0
          /\ r.student_id \in Range(students)
          /\ Cardinality(ZeroEntries(r.student_id, "A")) = 1
    /\ \E r \in TitleRows("A") :
          /\ r.score # 0
          /\ r.student_id \in Range(students)
          /\ ZeroEntries(r.student_id, "A") = {}

\* score == max_score, more than 5 recorded scores, mean / max_score * 100 < 75
PerfectWhileLow(r) ==
    LET rows == TitleRows(r.assignment_title)
        n == Cardinality(rows)
    IN  /\ r.score = Lookup(r.assignment_title).max_score
        /\ n > PerfectMinCount
        /\ SumScores(rows) * Percent < LowAverage * n * Lookup(r.assignment_title).max_score

\* C15 as stated: a recorded score receives a "Perfect score while class average
\* is low" entry exactly when it equals max_score, the assignment has more than
\* 5 recorded scores and the average percentage is below 75.
C15_PerfectIffLowAverage_AnyScore ==
    DetectCalled =>
        \A r \in Range(db_grades) :
            (r.course_code = course_code /\ r.assignment_title \in LookupTitles) =>
                (PerfectEntries(r.student_id, r.assignment_title) # {}
                    <=> PerfectWhileLow(r))

\* C15 for the roster: the same for every recorded score of a student who is in
\* the roster.
C15_PerfectIffLowAverage ==
    DetectCalled =>
        \A r \in Range(db_grades) :
            (r.course_code = course_code /\ r.assignment_title \in LookupTitles
                                        /\ r.student_id \in Range(students)) =>
                (PerfectEntries(r.student_id, r.assignment_title) # {}
                    <=> PerfectWhileLow(r))

\* C15 witness: six scores on max_score 4; 4, 4, 4, 4, 2, 0 average exactly 75 %
\* and give no entry
C15_Witness ==
    /\ DetectCalled
    /\ Len(students) = OutlierStudents
    /\ Cardinality(TitleRows("A")) = 6
    /\ SumScores(TitleRows("A")) * Percent = LowAverage * 6 * Lookup("A").max_score
    /\ \E r \in TitleRows("A") : r.score = Lookup("A").max_score
    /\ \A r \in TitleRows("A") : PerfectEntries(r.student_id, "A") = {}

\* the position of an entry's group in the returned sequence: 0 for "Missing
\* grade", else the index of its assignment in get_all_assignments
EntryGroup(e) ==
    IF e.reason = "Missing grade" THEN 0
    ELSE CHOOSE k \in DOMAIN assignments : assignments[k].title = e.assignment

\* C16: in the sequence returned by detect_outliers every "Missing grade" entry
\* precedes every other entry, and the other entries are grouped by assignment in
\* the order of get_all_assignments.
C16_FixedOrder ==
    DetectCalled =>
        \A i, j \in DOMAIN ret.value :
            i < j => EntryGroup(ret.value[i]) <= EntryGroup(ret.value[j])

\* C16 witness: the cache lists B before A, both have three scores, and the
\* "Zero score" entries of B all precede those of A
C16_Witness ==
    /\ DetectCalled
    /\ Len(assignments) = 2
    /\ assignments[1].title = "B"
    /\ \E i, j \in DOMAIN ret.value :
          /\ i < j
          /\ ret.value[i].assignment = "B" /\ ret.value[i].reason # "Missing grade"
          /\ ret.value[j].assignment = "A" /\ ret.value[j].reason # "Missing grade"

\* the entries of every kind, for a (student, title)
Kinds ==
    {"Missing grade", "Unusual score", "Zero score - possible issue",
     "Perfect score while class average is low"}

NoKindTwice ==
    \A e \in Range(ret.value) :
        /\ \A reason \in Kinds :
              Cardinality(KindEntries(e.student_id, e.assignment, reason)) <= 1
        /\ ~(/\ ZeroEntries(e.student_id, e.assignment) # {}
             /\ PerfectEntries(e.student_id, e.assignment) # {})

\* C17 as stated: a recorded score that is 0 and lies more than 2 standard
\* deviations from the mean yields two entries for its (student, assignment),
\* one "Unusual score" and one "Zero score"; no pair receives two entries of the
\* same kind, and no pair receives both a "Zero score" and a "Perfect score".
C17_ZeroAndUnusualBoth_AnyScore ==
    DetectCalled =>
        /\ \A r \in Range(db_grades) :
              (/\ r.course_code = course_code
               /\ Scanned(r.assignment_title)
               /\ r.score = 0
               /\ BeyondTwoSigma(r)) =>
                  /\ Cardinality(UnusualEntries(r.student_id, r.assignment_title)) = 1
                  /\ Cardinality(ZeroEntries(r.student_id, r.assignment_title)) = 1
        /\ NoKindTwice

\* C17 for the roster: the same, the two entries being those of a student who is
\* in the roster.
C17_ZeroAndUnusualBoth ==
    DetectCalled =>
        /\ \A r \in Range(db_grades) :
              (/\ r.course_code = course_code
               /\ Scanned(r.assignment_title)
               /\ r.student_id \in Range(students)
               /\ r.score = 0
               /\ BeyondTwoSigma(r)) =>
                  /\ Cardinality(UnusualEntries(r.student_id, r.assignment_title)) = 1
                  /\ Cardinality(ZeroEntries(r.student_id, r.assignment_title)) = 1
        /\ NoKindTwice

\* C17 witness: a 0 among five equal non-zero scores has both entries
C17_Witness ==
    /\ DetectCalled
    /\ \E r \in TitleRows("A") :
          /\ r.score = 0
          /\ BeyondTwoSigma(r)
          /\ Cardinality(UnusualEntries(r.student_id, "A")) = 1
          /\ Cardinality(ZeroEntries(r.student_id, "A")) = 1
          /\ Cardinality({i \in DOMAIN ret.value :
                             ret.value[i].student_id = r.student_id}) = 2

\* C18: with an empty roster, or with an empty assignment list, detect_outliers
\* returns the empty sequence, whatever grades are stored.
C18_EmptyRosterOrList ==
    (DetectCalled /\ (students = <<>> \/ assignments = <<>>)) => ret.value = <<>>

\* C18 witness: an empty roster, while a listed assignment has three recorded
\* zeros
C18_Witness ==
    /\ DetectCalled
    /\ students = <<>>
    /\ Sampled("A")
    /\ \A r \in TitleRows("A") : r.score = 0
    /\ ret.value = <<>>

ReadOps == {"calculate_student_final", "calculate_final_grades", "detect_outliers"}

C20_ReferentialIntegrity ==
    \A r \in Range(db_grades) :
        r.course_code = course_code =>
            /\ r.student_id \in Range(students)
            /\ r.assignment_title \in LookupTitles

\* every recorded score of the student lies in [0, max_score] of its assignment
\* and no assignment has a negative weight
ScoresInRange(student_id) ==
    /\ \A r \in FindableRows(student_id) :
          0 <= r.score /\ r.score <= Lookup(r.assignment_title).max_score
    /\ \A a \in Range(assignments) : a.weight >= 0

AllPerfect(student_id) ==
    \A r \in FindableRows(student_id) : r.score = Lookup(r.assignment_title).max_score

\* C29 in exact arithmetic (SpecFinal, weights that are binary fractions): with
\* every score in [0, max_score] and no negative weight, the
\* weighted_total lies in [0, 100] when the weights of the student's graded
\* findable assignments sum to at most 1; when they sum to more than 1 it is not
\* clamped: all-perfect scores give 100 times the weight sum, above 100.
C29_TotalRange ==
    (FinalCalled /\ RecordedRows(ret.arg) # {} /\ ScoresInRange(ret.arg)) =>
        LET W == SumW(FindableRows(ret.arg))
            total == ret.value.weighted_total
        IN  /\ ~RGt(W, Int2R(FullWeight)) =>
                  RGe(total, Int2R(0)) /\ ~RGt(total, Int2R(Percent))
            /\ (RGt(W, Int2R(FullWeight)) /\ AllPerfect(ret.arg)) =>
                  /\ total = RMul(Int2R(Percent), W)
                  /\ RGt(total, Int2R(Percent))

\* C29 witness: two perfect scores on weights 1 and 0.5 give 150
C29_Witness ==
    /\ FinalCalled
    /\ Cardinality(FindableRows(ret.arg)) = 2
    /\ ScoresInRange(ret.arg)
    /\ AllPerfect(ret.arg)
    /\ SumW(FindableRows(ret.arg)) = Norm(3, 2)
    /\ ret.value.weighted_total = Int2R(150)

\* C27: an assignment with 3, 4 or 5 recorded scores gets no "Unusual score"
\* entry, whatever the scores: |x - mean| / stdev is at most (n - 1) / sqrt(n),
\* which is below 2 up to n = 5.
C27_NoUnusualUpToFive ==
    DetectCalled =>
        \A t \in Titles :
            (Cardinality(TitleRows(t)) >= MinSample /\ Cardinality(TitleRows(t)) <= 5) =>
                \A i \in DOMAIN ret.value :
                    ret.value[i].assignment = t => ret.value[i].reason # "Unusual score"

\* C27 witness: five scores of rostered students, one 0 and four times the
\* highest score drawn: the farthest a score of five can lie (z = 1.79), and the
\* 0 has its "Zero score" entry only
C27_Witness ==
    /\ DetectCalled
    /\ Cardinality(TitleRows("A")) = 5
    /\ {r.score : r \in TitleRows("A")} = {0, OutlierMaxScore}
    /\ \A r \in TitleRows("A") : r.student_id \in Range(students)
    /\ \E r \in TitleRows("A") :
          /\ r.score = 0
          /\ \A x \in TitleRows("A") : x # r => x.score = OutlierMaxScore
          /\ Cardinality(ZeroEntries(r.student_id, "A")) = 1
          /\ UnusualEntries(r.student_id, "A") = {}

\* the students who own a recorded score of the current course without being in
\* the roster
RemovedStudents ==
    {r.student_id : r \in {x \in Range(db_grades) : x.course_code = course_code}}
        \ Range(students)

\* C28: the grades of a student who is not in the roster count in the sample
\* size (the 3 gate and the 5 gate), the mean, the standard deviation and the
\* class average of the assignment -- the entries of the rostered students follow
\* from the statistics over all recorded scores -- but every entry returned by
\* detect_outliers names a student of the roster, and calculate_final_grades has
\* no entry for a student outside it.
C28_RemovedStudentsCountButNoEntry ==
    /\ RankCalled =>
          \A i \in DOMAIN ret.value : ret.value[i].student_id \in Range(students)
    /\ DetectCalled =>
          /\ \A i \in DOMAIN ret.value : ret.value[i].student_id \in Range(students)
          /\ \A r \in Range(db_grades) :
                (/\ r.course_code = course_code
                 /\ r.assignment_title \in LookupTitles
                 /\ r.student_id \in Range(students)) =>
                    /\ Cardinality(ZeroEntries(r.student_id, r.assignment_title)) =
                          (IF r.score = 0 /\ Sampled(r.assignment_title) THEN 1 ELSE 0)
                    /\ PerfectEntries(r.student_id, r.assignment_title) # {}
                          <=> PerfectWhileLow(r)
                    /\ HasUnusualEntry(r)
                          <=> (Scanned(r.assignment_title) /\ BeyondTwoSigma(r))

\* C28 witness: three zeros, one of them of a removed student; the two students
\* of the roster who scored have their "Zero score" entries (with their two
\* scores alone the assignment would not be scanned), the removed one has none
C28_Witness ==
    /\ DetectCalled
    /\ Cardinality(TitleRows("A")) = 3
    /\ \A r \in TitleRows("A") : r.score = 0
    /\ Cardinality(RemovedStudents) = 1
    /\ \A r \in TitleRows("A") :
          Cardinality(ZeroEntries(r.student_id, "A")) =
             (IF r.student_id \in RemovedStudents THEN 0 ELSE 1)

\* C21 as stated: in every reachable state every stored score of the current
\* course lies in [0, max_score] of its assignment in the lookup.
C21_ScoresWithinMaxScore ==
    \A r \in Range(db_grades) :
        (r.course_code = course_code /\ r.assignment_title \in LookupTitles) =>
            /\ 0 <= r.score
            /\ r.score <= Lookup(r.assignment_title).max_score

\* C22 as stated: no two assignments of the course share a title, a
\* create_assignment with a title the course already lists returns False and
\* leaves the assignments as they were, and an update_assignment whose new title
\* is the title of another listed assignment returns False and changes nothing.
C22_TitlesUnique ==
    [][/\ \A i, j \in DOMAIN assignments' :
             assignments'[i].title = assignments'[j].title => i = j
       /\ \A i, j \in DOMAIN db_assignments' :
             db_assignments'[i].title = db_assignments'[j].title => i = j
       /\ (ret'.op = "create_assignment" /\ writes' = writes + 1
              /\ TitleIn(assignments, ret'.arg.title)) =>
             /\ ret'.value = "False"
             /\ UNCHANGED <<assignments, db_assignments, db_grades>>
       /\ (ret'.op = "update_assignment" /\ writes' = writes + 1
              /\ ret'.arg[2] # NoTitle /\ ret'.arg[2] # ret'.arg[1]
              /\ TitleIn(assignments, ret'.arg[2])) =>
             /\ ret'.value = "False"
             /\ UNCHANGED <<assignments, db_assignments, db_grades>>]_vars

\* C23 as stated: update_assignment returns True whenever the title is listed,
\* the new title (if any) is not the title of another listed assignment and at
\* least one field is supplied; it returns False only when nothing was changed.
C23_UpdateReturnsTrue ==
    [][(ret'.op = "update_assignment" /\ writes' = writes + 1) =>
          LET title == ret'.arg[1]
              new_title == ret'.arg[2]
              supplied == new_title # NoTitle \/ ret'.arg[3] # Keep \/ ret'.arg[4] # Keep
              collides == /\ new_title # NoTitle /\ new_title # title
                          /\ TitleIn(assignments, new_title)
          IN  /\ (supplied /\ ~collides) => ret'.value = "True"
              /\ ret'.value = "False" =>
                    UNCHANGED <<assignments, db_assignments, db_grades>>]_vars

\* C26 as stated: whenever a course is loaded, the cached (title, weight,
\* max_score) records are the rows of the assignments table.
C26_CacheAgreesWithTable ==
    course_code # NoCourse => Range(assignments) = Range(db_assignments)

\* An update_assignment that supplied a max_score succeeded on an assignment
\* that has a stored score.
C21_Witness ==
    /\ ret.op = "update_assignment" /\ ret.value = "True" /\ ret.arg[4] # Keep
    /\ \E r \in Range(db_grades) :
          /\ r.course_code = course_code
          /\ r.assignment_title \in LookupTitles
          /\ r.score <= Lookup(r.assignment_title).max_score
          /\ Lookup(r.assignment_title).max_score = ret.arg[4]

\* A create_assignment with a listed title was refused while another
\* assignment is listed too.
C22_Witness ==
    /\ ret.op = "create_assignment" /\ ret.value = "False"
    /\ TitleIn(assignments, ret.arg.title)
    /\ TitleIn(db_assignments, ret.arg.title)
    /\ Len(assignments) = 2

\* A rename to a free title returned True.
C23_Witness ==
    /\ ret.op = "update_assignment" /\ ret.value = "True"
    /\ ret.arg[2] \notin {NoTitle, ret.arg[1]}
    /\ TitleIn(assignments, ret.arg[2])
    /\ ~TitleIn(assignments, ret.arg[1])

\* After a successful update of weight and max_score the cache holds the
\* table's rows.
C26_Witness ==
    /\ ret.op = "update_assignment" /\ ret.value = "True"
    /\ ret.arg[3] # Keep /\ ret.arg[4] # Keep
    /\ assignments # <<>>
    /\ Range(assignments) = Range(db_assignments)

\* the values a dictionary read (a sequence of <<key, value>> items) holds under key
ItemsAt(items, key) == {i \in DOMAIN items : items[i][1] = key}

\* C24 as stated: a successful enter_grade(s, a, x) leaves exactly one record
\* for (s, a), with score x, read alike by get_student_grades(s) and
\* get_assignment_grades(a); every other (student, assignment) pair reads as
\* before; with no course set the call returns False and stores nothing.
C24_EnterGradeUpsert ==
    [][\A s \in 1..AppStudents, a \in Titles, x \in 0..AppMaxScore :
          (ret'.op = "enter_grade" /\ ret'.arg = <<s, a, x>> /\ writes' = writes + 1) =>
              IF course_code = NoCourse
              THEN ret'.value = "False" /\ db_grades' = db_grades
              ELSE /\ ret'.value = "True"
                   /\ \E i \in DOMAIN get_student_grades(s)' :
                         /\ ItemsAt(get_student_grades(s)', a) = {i}
                         /\ get_student_grades(s)'[i][2] = x
                   /\ \E i \in DOMAIN get_assignment_grades(a)' :
                         /\ ItemsAt(get_assignment_grades(a)', s) = {i}
                         /\ get_assignment_grades(a)'[i][2] = x
                   /\ Cardinality({i \in DOMAIN db_grades' :
                          /\ db_grades'[i].student_id = s
                          /\ db_grades'[i].course_code = course_code
                          /\ db_grades'[i].assignment_title = a}) = 1
                   /\ \A s2 \in 1..AppStudents, a2 \in Titles :
                         <<s2, a2>> # <<s, a>> =>
                            {get_student_grades(s2)[i][2] : i \in ItemsAt(get_student_grades(s2), a2)}
                            = {get_student_grades(s2)'[i][2] : i \in ItemsAt(get_student_grades(s2)', a2)}
                   /\ {r \in Range(db_grades') : r.student_id # s \/ r.assignment_title # a}
                         = {r \in Range(db_grades) : r.student_id # s \/ r.assignment_title # a}]_vars

\* A score was entered over an earlier one: the record is the first of a full
\* table, where a new record would have been the last.
C24_Witness ==
    /\ ret.op = "enter_grade" /\ ret.value = "True" /\ writes = 1
    /\ Len(db_grades) = AppStudents * Len(TitleSeq)
    /\ db_grades[1].student_id = ret.arg[1]
    /\ db_grades[1].assignment_title = ret.arg[2]
    /\ db_grades[1].score = ret.arg[3]

FinalOver(items, cache) ==
    LET found(k) == {a \in Range(cache) : a.title = items[k][1]}
        step(acc, k) ==
            IF found(k) = {} THEN acc
            ELSE LET a == CHOOSE x \in found(k) : TRUE
                 IN  <<RAdd(acc[1], RMul(RMul(RDiv(Int2R(items[k][2]), Int2R(a.max_score)),
                                              Int2R(Percent)),
                                         Norm(a.weight, WeightDen))),
                       RAdd(acc[2], Norm(a.weight, WeightDen))>>
        sums[k \in 0..Len(items)] ==
            IF k = 0 THEN <<Int2R(0), Int2R(0)>> ELSE step(sums[k - 1], k)
    IN  IF items = <<>> THEN NoneValue
        ELSE LET final_grade == finalize(sums[Len(items)][1], sums[Len(items)][2])
             IN  [weighted_total |-> final_grade,
                  letter_grade |-> calculate_letter_grade(final_grade)]

\* C30 as stated: after update_assignment(title, new_title) returns True every
\* score recorded under title is recorded under new_title with the same value,
\* none remains under title, and calculate_student_final returns for every
\* student what it returned before the rename.
C30_RenamePreservesGrades ==
    [][(ret'.op = "update_assignment" /\ ret'.value = "True" /\ writes' = writes + 1) =>
          \A title \in Titles, new_title \in Titles :
             ret'.arg = <<title, new_title, Keep, Keep>> =>
                /\ \A r \in Range(db_grades) :
                      (r.course_code = course_code /\ r.assignment_title = title) =>
                         [r EXCEPT !.assignment_title = new_title] \in Range(db_grades')
                /\ title # new_title =>
                      \A r \in Range(db_grades') :
                         ~(r.course_code = course_code /\ r.assignment_title = title)
                /\ \A s \in 1..AppStudents :
                      /\ FinalOver(get_student_grades(s), assignments)
                            = calculate_student_final(s)
                      /\ FinalOver(get_student_grades(s)', assignments')
                            = calculate_student_final(s)]_vars

\* A rename returned True and a score is recorded under the new title, which
\* counts in the student's final grade.
C30_Witness ==
    /\ ret.op = "update_assignment" /\ ret.value = "True"
    /\ ret.arg[2] \notin {NoTitle, ret.arg[1]}
    /\ ret.arg[3] = Keep /\ ret.arg[4] = Keep
    /\ \E r \in Range(db_grades) :
          /\ r.assignment_title = ret.arg[2]
          /\ r.score > 0
          /\ calculate_student_final(r.student_id) # NoneValue
          /\ RGt(calculate_student_final(r.student_id).weighted_total, Int2R(0))

\* the exact sum of the stored (float) weights over a set of findable rows
RECURSIVE SumFloatWeights(_)
SumFloatWeights(rows) ==
    IF rows = {} THEN Int2R(0)
    ELSE LET r == CHOOSE x \in rows : TRUE
         IN  RAdd(float_of_decimal(Lookup(r.assignment_title).weight),
                  SumFloatWeights(rows \ {r}))

\* C29 as stated, of the value computed in floating point: with every score in
\* [0, max_score], no negative weight and the weights of the student's graded
\* findable assignments summing to at most 1, weighted_total lies in [0, 100].
C29_TotalRangeFloat ==
    (/\ FinalCalled /\ RecordedRows(ret.arg) # {} /\ ScoresInRange(ret.arg)
     /\ ~RGt(SumFloatWeights(FindableRows(ret.arg)), Int2R(FullWeight))) =>
        /\ RGe(ret.value.weighted_total, Int2R(0))
        /\ ~RGt(ret.value.weighted_total, Int2R(Percent))

\* Two perfect scores on assignments whose decimal weights are no binary
\* fractions and sum to less than 1 gave exactly 100.
C29_WitnessFloat ==
    /\ FinalCalled /\ ScoresInRange(ret.arg)
    /\ Cardinality(FindableRows(ret.arg)) = 2
    /\ AllPerfect(ret.arg)
    /\ \A a \in Range(assignments) : a.weight % (DecimalDen \div 2) # 0
    /\ RLt(SumFloatWeights(FindableRows(ret.arg)), Int2R(FullWeight))
    /\ ret.value.weighted_total = Int2R(Percent)

====
